---- MODULE Spec2Model ----
\* Model of the AIDL fingerprint Session shim (aidl/fingerprint/Session.cpp):
\* request operations running on binder threads, the legacy driver's
\* notification entry point, the close / death path and the detached lockout
\* timer threads, interleaved at the granularity of the statements that touch
\* shared state or invoke the client callback.
EXTENDS Integers, Sequences, FiniteSets, TLC

\* ------------------------------------------------------------------ bounds
NumClients == 2     \* binder threads that can be inside the Session at once
MaxOps     == 2     \* operations (requests + notifications) begun in one run
MaxTimers  == 2     \* detached timer threads spawned in one run

\* ------------------------------------- legacy constants used by the source
FINGERPRINT_ERROR_HW_UNAVAILABLE    == 1
FINGERPRINT_ERROR_UNABLE_TO_PROCESS == 2
FINGERPRINT_ERROR_TIMEOUT           == 3
FINGERPRINT_ERROR_NO_SPACE          == 4
FINGERPRINT_ERROR_CANCELED          == 5
FINGERPRINT_ERROR_UNABLE_TO_REMOVE  == 6
FINGERPRINT_ERROR_LOCKOUT           == 7
FINGERPRINT_ERROR_VENDOR_BASE       == 1000

FINGERPRINT_ACQUIRED_GOOD           == 0
FINGERPRINT_ACQUIRED_PARTIAL        == 1
FINGERPRINT_ACQUIRED_INSUFFICIENT   == 2
FINGERPRINT_ACQUIRED_IMAGER_DIRTY   == 3
FINGERPRINT_ACQUIRED_TOO_SLOW       == 4
FINGERPRINT_ACQUIRED_TOO_FAST       == 5
FINGERPRINT_ACQUIRED_VENDOR_BASE    == 1000

\* ------------------------------------------------------------------ threads
Clients == 1 .. NumClients                      \* binder threads
Driver  == NumClients + 1                       \* the driver's notify thread
Timers  == (NumClients + 2) .. (NumClients + 1 + MaxTimers)
Threads == Clients \cup {Driver} \cup Timers
NoThread == 0

\* ------------------------------------------------------------------- inputs
DriverStatus == {0, 5, -22}          \* immediate status of a legacy call
Challenges   == {77}
AuthIds      == {9}
EnrollIdLists == {<< >>, <<1>>, <<1, 2>>, <<2, 1>>}

\* fingerprint_msg_t: the six message types of the legacy notify channel
Messages ==
    [type : {"FINGERPRINT_ERROR"},
     val  : {FINGERPRINT_ERROR_LOCKOUT, FINGERPRINT_ERROR_CANCELED,
             FINGERPRINT_ERROR_VENDOR_BASE + 2, 9}]
    \cup [type : {"FINGERPRINT_ACQUIRED"},
          val  : {FINGERPRINT_ACQUIRED_GOOD, FINGERPRINT_ACQUIRED_IMAGER_DIRTY,
                  FINGERPRINT_ACQUIRED_VENDOR_BASE + 1, 6}]
    \cup [type : {"FINGERPRINT_TEMPLATE_ENROLLING"}, val : {0, 2}]
    \cup [type : {"FINGERPRINT_TEMPLATE_REMOVED"}, val : {1}]
    \cup [type : {"FINGERPRINT_AUTHENTICATED"}, val : {0, 3}]
    \cup [type : {"FINGERPRINT_TEMPLATE_ENUMERATING"}, val : {1}]

NoMsg == [type |-> "none", val |-> 0]

VARIABLES
    mClosed,                 \* Session::mClosed
    mIsLockoutTimerStarted,  \* Session::mIsLockoutTimerStarted
    mIsLockoutTimerAborted,  \* Session::mIsLockoutTimerAborted
    mDeathRecipient,         \* "live" | "deleted"
    mutexOwner,              \* holder of mSessionCallbackMutex, NoThread if free
    crashed,                 \* the process has aborted
    pc,                      \* position of every thread
    frame,                   \* locals of the operation a thread is running
    tm,                      \* per timer thread: what happened while it slept
    ops,                     \* history: every operation begun, in order
    cbLog,                   \* history: client callback invocations, in order
    drvLog,                  \* history: legacy driver calls, in order
    trkLog,                  \* history: LockoutTracker.reset calls, in order
    inCallback               \* threads currently inside a client callback

vars == << mClosed, mIsLockoutTimerStarted, mIsLockoutTimerAborted,
           mDeathRecipient, mutexOwner, crashed, pc, frame, tm, ops, cbLog,
           drvLog, trkLog, inCallback >>

sessionVars == << mClosed, mIsLockoutTimerStarted, mIsLockoutTimerAborted,
                  mDeathRecipient >>

\* ------------------------------------------------------------------ helpers
CountIf(s, P(_)) == Cardinality({i \in 1 .. Len(s) : P(s[i])})

IsRequest(o) == o.kind # "lockoutTimerExpired"
OpsBegun == CountIf(ops, IsRequest)

IsCloseDone(o) == o.closed /\ o.ret = "ok"
CloseCompleted == CountIf(ops, IsCloseDone) > 0

EmptyFrame == [op |-> 0, error |-> 0]

\* startOp: the startLockoutTimer call that spawned the thread; resetCalled /
\* restarted: resetLockout / startLockoutTimer was called after that call had
\* returned and while the delayed action was still pending
NoTimer == [startOp |-> 0, resetCalled |-> FALSE, restarted |-> FALSE]

\* what a translator hands back: the AIDL enumerator and *vendorCode
Translated(kind, vendorCode) == [kind |-> kind, vendorCode |-> vendorCode]
NoOut == Translated("", 0)

NewOp(kind, t, msg, arg, ids) ==
    [kind |-> kind, t |-> t, msg |-> msg, arg |-> arg, ids |-> ids,
     ret |-> "pending", closed |-> FALSE, open |-> ~mClosed,
     token |-> FALSE, out |-> NoOut]

\* (ret: what the operation returned; closed: it ran the body of close();
\* open: mClosed was false when it began; token: *out was set to a new
\* CancellationSignal; out: the value a translator returned)

\* the operations that store a CancellationSignal in *out before returning
MakesToken(kind) ==
    kind \in {"enroll", "authenticate", "detectInteraction",
              "detectInteractionWithContext"}

\* the operation thread t is running returns `r` to its caller
Returns(o, r) ==
    [ops EXCEPT ![o].ret = r, ![o].token = (r = "ok" /\ MakesToken(ops[o].kind))]

\* one invocation of a method of mSessionCallback by thread t
\* (locked: the caller holds mSessionCallbackMutex; afterClose: some close()
\* had already returned; overlap: another invocation was still in progress)
CallbackEntry(o, name, kind, code, locked) ==
    [op |-> o, name |-> name, kind |-> kind, code |-> code,
     locked |-> locked, afterClose |-> CloseCompleted,
     overlap |-> (inCallback # {})]

InvokeCallback(t, o, name, kind, code, locked) ==
    /\ cbLog' = Append(cbLog, CallbackEntry(o, name, kind, code, locked))
    /\ inCallback' = inCallback \cup {t}

CallbackReturns(t) == inCallback' = inCallback \ {t}

\* ---------------------------------------------------------------- initial
\* The Session right after construction: open, no timer, callback registered.
Init ==
    /\ mClosed = FALSE
    /\ mIsLockoutTimerStarted = FALSE
    /\ mIsLockoutTimerAborted = FALSE
    /\ mDeathRecipient = "live"
    /\ mutexOwner = NoThread
    /\ crashed = FALSE
    /\ pc = [t \in Threads |-> IF t \in Timers THEN "unborn" ELSE "idle"]
    /\ frame = [t \in Threads |-> EmptyFrame]
    /\ tm = [k \in Timers |-> NoTimer]
    /\ ops = << >>
    /\ cbLog = << >>
    /\ drvLog = << >>
    /\ trkLog = << >>
    /\ inCallback = {}

\* A new operation starts on an idle thread; the binder threads are
\* interchangeable, so a request is taken by the lowest-numbered idle one.
CanBegin(t) ==
    /\ ~crashed
    /\ pc[t] = "idle"
    /\ OpsBegun < MaxOps
    /\ t \in Clients => \A u \in Clients : u < t => pc[u] # "idle"
Running(t, label) == ~crashed /\ pc[t] = label

ThisOp == Len(ops) + 1
DriverCall(o, fn, arg, ret) == [op |-> o, fn |-> fn, arg |-> arg, ret |-> ret]

\* ------------------------------------------------- requests, lines 47-130
\* generateChallenge: pre_enroll, then onChallengeGenerated with no lock held
GenerateChallenge(t, challenge) ==
    /\ CanBegin(t)
    /\ ops' = Append(ops, NewOp("generateChallenge", t, NoMsg, challenge, << >>))
    /\ drvLog' = Append(drvLog, DriverCall(ThisOp, "pre_enroll", 0, challenge))
    /\ InvokeCallback(t, ThisOp, "onChallengeGenerated", "", challenge, mutexOwner = t)
    /\ pc' = [pc EXCEPT ![t] = "return_ok"]
    /\ frame' = [frame EXCEPT ![t] = [EmptyFrame EXCEPT !.op = ThisOp]]
    /\ UNCHANGED << sessionVars, mutexOwner, crashed, tm, trkLog >>

\* revokeChallenge: post_enroll, then onChallengeRevoked echoing the argument
RevokeChallenge(t, challenge) ==
    /\ CanBegin(t)
    /\ ops' = Append(ops, NewOp("revokeChallenge", t, NoMsg, challenge, << >>))
    /\ drvLog' = Append(drvLog, DriverCall(ThisOp, "post_enroll", 0, 0))
    /\ InvokeCallback(t, ThisOp, "onChallengeRevoked", "", challenge, mutexOwner = t)
    /\ pc' = [pc EXCEPT ![t] = "return_ok"]
    /\ frame' = [frame EXCEPT ![t] = [EmptyFrame EXCEPT !.op = ThisOp]]
    /\ UNCHANGED << sessionVars, mutexOwner, crashed, tm, trkLog >>

\* The callback invoked by an operation that holds no lock returns, and the
\* operation returns ScopedAStatus::ok().
ReturnOk(t) ==
    /\ Running(t, "return_ok")
    /\ CallbackReturns(t)
    /\ ops' = Returns(frame[t].op, "ok")
    /\ pc' = [pc EXCEPT ![t] = "idle"]
    /\ frame' = [frame EXCEPT ![t] = EmptyFrame]
    /\ UNCHANGED << sessionVars, mutexOwner, crashed, tm, cbLog, drvLog, trkLog >>

\* ErrorFilter is declared outside Session.cpp; it hands the driver's
\* immediate status on as the vendor code of the error report.
ErrorFilter(status) == status

\* LegacyRequest with a retry: a failed legacy call is issued a second time
LegacyRequest_Retry(t, kind, fn, status, error) ==
    /\ CanBegin(t)
    /\ drvLog' = IF error # 0
                 THEN drvLog \o << DriverCall(ThisOp, fn, 0, status),
                                   DriverCall(ThisOp, fn, 0, status) >>
                 ELSE Append(drvLog, DriverCall(ThisOp, fn, 0, status))
    /\ IF error # 0
       THEN /\ ops' = Append(ops, NewOp(kind, t, NoMsg, status, << >>))
            /\ pc' = [pc EXCEPT ![t] = "report_error"]
            /\ frame' = [frame EXCEPT ![t] =
                            [EmptyFrame EXCEPT !.op = ThisOp, !.error = error]]
       ELSE /\ ops' = Append(ops, [NewOp(kind, t, NoMsg, status, << >>)
                                      EXCEPT !.ret = "ok",
                                             !.token = MakesToken(kind)])
            /\ pc' = pc
            /\ frame' = frame
    /\ UNCHANGED << sessionVars, mutexOwner, crashed, tm, cbLog, trkLog, inCallback >>

\* The one legacy call of enroll / authenticate / enumerate and the test of
\* its immediate status: zero returns at once, non-zero goes on to report.
LegacyRequest(t, kind, fn, status, error) ==
    /\ CanBegin(t)
    /\ drvLog' = Append(drvLog, DriverCall(ThisOp, fn, 0, status))
    /\ IF error # 0
       THEN /\ ops' = Append(ops, NewOp(kind, t, NoMsg, status, << >>))
            /\ pc' = [pc EXCEPT ![t] = "report_error"]
            /\ frame' = [frame EXCEPT ![t] =
                            [EmptyFrame EXCEPT !.op = ThisOp, !.error = error]]
       ELSE /\ ops' = Append(ops, [NewOp(kind, t, NoMsg, status, << >>)
                                      EXCEPT !.ret = "ok",
                                             !.token = MakesToken(kind)])
            /\ pc' = pc
            /\ frame' = frame
    /\ UNCHANGED << sessionVars, mutexOwner, crashed, tm, cbLog, trkLog, inCallback >>

Enroll(t, status) ==
    LegacyRequest(t, "enroll", "enroll", status, ErrorFilter(status))

Authenticate(t, status) ==
    LegacyRequest(t, "authenticate", "authenticate", status, status)

EnumerateEnrollments(t, status) ==
    LegacyRequest(t, "enumerateEnrollments", "enumerate", status, status)

\* std::lock_guard on mSessionCallbackMutex, then onError(UNABLE_TO_PROCESS, error)
ReportError(t) ==
    /\ Running(t, "report_error")
    /\ mutexOwner = NoThread
    /\ mutexOwner' = t
    /\ InvokeCallback(t, frame[t].op, "onError", "UNABLE_TO_PROCESS",
                      frame[t].error, TRUE)
    /\ pc' = [pc EXCEPT ![t] = "unlock_return_ok"]
    /\ UNCHANGED << sessionVars, crashed, frame, tm, ops, drvLog, trkLog >>

\* the callback returns, the lock_guard goes out of scope, the operation
\* returns ScopedAStatus::ok()
UnlockReturnOk(t) ==
    /\ Running(t, "unlock_return_ok")
    /\ CallbackReturns(t)
    /\ mutexOwner' = NoThread
    /\ ops' = Returns(frame[t].op, "ok")
    /\ pc' = [pc EXCEPT ![t] = "idle"]
    /\ frame' = [frame EXCEPT ![t] = EmptyFrame]
    /\ UNCHANGED << sessionVars, crashed, tm, cbLog, drvLog, trkLog >>

\* detectInteraction forwarding the request to the driver like authenticate
DetectInteractionAs_AsksDriver(t, kind) ==
    LegacyRequest(t, kind, "authenticate", 5, 5)

\* the body of detectInteraction: onError(UNABLE_TO_PROCESS, 0), no driver
\* call, no lock; `kind` is the entry point the client used
DetectInteractionAs(t, kind) ==
    /\ CanBegin(t)
    /\ ops' = Append(ops, NewOp(kind, t, NoMsg, 0, << >>))
    /\ InvokeCallback(t, ThisOp, "onError", "UNABLE_TO_PROCESS", 0, mutexOwner = t)
    /\ pc' = [pc EXCEPT ![t] = "return_ok"]
    /\ frame' = [frame EXCEPT ![t] = [EmptyFrame EXCEPT !.op = ThisOp]]
    /\ UNCHANGED << sessionVars, mutexOwner, crashed, tm, drvLog, trkLog >>

DetectInteraction(t) == DetectInteractionAs(t, "detectInteraction")

\* detectInteractionWithContext: return detectInteraction(out)
DetectInteractionWithContext(t) ==
    DetectInteractionAs(t, "detectInteractionWithContext")

\* the statuses the driver can return for the ids of one removeEnrollments
StatusLists(ids) == [1 .. Len(ids) -> DriverStatus]

\* RemoveCalls leaving the loop at the first failed remove
RECURSIVE RemoveCalls_StopsOnFailure(_, _, _)
RemoveCalls_StopsOnFailure(o, ids, sts) ==
    IF ids = << >> THEN << >>
    ELSE << DriverCall(o, "remove", Head(ids), Head(sts)) >>
         \o (IF Head(sts) # 0 THEN << >>
             ELSE RemoveCalls_StopsOnFailure(o, Tail(ids), Tail(sts)))

\* the range-for over enrollmentIds: remove(mDevice, mUserId, enrollment)
\* for each id in turn; a failed call is logged and the loop goes on
RECURSIVE RemoveCalls(_, _, _)
RemoveCalls(o, ids, sts) ==
    IF ids = << >> THEN << >>
    ELSE << DriverCall(o, "remove", Head(ids), Head(sts)) >>
         \o RemoveCalls(o, Tail(ids), Tail(sts))

\* removeEnrollments: the loop touches no Session state and invokes no
\* callback, so the whole operation is one step; it returns ok
RemoveEnrollments(t, ids, sts) ==
    /\ CanBegin(t)
    /\ ops' = Append(ops, [NewOp("removeEnrollments", t, NoMsg, 0, ids)
                              EXCEPT !.ret = "ok"])
    /\ drvLog' = drvLog \o RemoveCalls(ThisOp, ids, sts)
    /\ UNCHANGED << sessionVars, mutexOwner, crashed, pc, frame, tm, cbLog, trkLog,
                    inCallback >>

\* getAuthenticatorId: get_authenticator_id, then onAuthenticatorIdRetrieved
GetAuthenticatorId(t, id) ==
    /\ CanBegin(t)
    /\ ops' = Append(ops, NewOp("getAuthenticatorId", t, NoMsg, id, << >>))
    /\ drvLog' = Append(drvLog, DriverCall(ThisOp, "get_authenticator_id", 0, id))
    /\ InvokeCallback(t, ThisOp, "onAuthenticatorIdRetrieved", "", id, mutexOwner = t)
    /\ pc' = [pc EXCEPT ![t] = "return_ok"]
    /\ frame' = [frame EXCEPT ![t] = [EmptyFrame EXCEPT !.op = ThisOp]]
    /\ UNCHANGED << sessionVars, mutexOwner, crashed, tm, trkLog >>

\* invalidateAuthenticatorId: get_authenticator_id, onAuthenticatorIdInvalidated
InvalidateAuthenticatorId(t, id) ==
    /\ CanBegin(t)
    /\ ops' = Append(ops, NewOp("invalidateAuthenticatorId", t, NoMsg, id, << >>))
    /\ drvLog' = Append(drvLog, DriverCall(ThisOp, "get_authenticator_id", 0, id))
    /\ InvokeCallback(t, ThisOp, "onAuthenticatorIdInvalidated", "", id, mutexOwner = t)
    /\ pc' = [pc EXCEPT ![t] = "fall_off_end"]
    /\ frame' = [frame EXCEPT ![t] = [EmptyFrame EXCEPT !.op = ThisOp]]
    /\ UNCHANGED << sessionVars, mutexOwner, crashed, tm, trkLog >>

\* invalidateAuthenticatorId has no return statement: control flows off the
\* end of a value-returning function, so the caller gets an unspecified
\* status or the process traps.
InvalidateFallsOffEnd(t) ==
    /\ Running(t, "fall_off_end")
    /\ CallbackReturns(t)
    /\ \/ /\ \E r \in {"ok", "indeterminate"} : ops' = Returns(frame[t].op, r)
          /\ crashed' = FALSE
       \/ /\ ops' = Returns(frame[t].op, "trap")
          /\ crashed' = TRUE
    /\ pc' = [pc EXCEPT ![t] = "idle"]
    /\ frame' = [frame EXCEPT ![t] = EmptyFrame]
    /\ UNCHANGED << sessionVars, mutexOwner, tm, cbLog, drvLog, trkLog >>

\* ------------------------------------------------- lockout, lines 132-220
\* clearLockout: LockoutTracker.reset, then onLockoutCleared, no lock taken
ClearLockout(t, o, clearAttemptCounter) ==
    /\ trkLog' = Append(trkLog, [op |-> o, clearAttemptCounter |-> clearAttemptCounter,
                                 by |-> t])
    /\ InvokeCallback(t, o, "onLockoutCleared", "", 0, mutexOwner = t)

Pending(k) == pc[k] = "sleeping" /\ ops[tm[k].startOp].ret = "void"

\* the HardwareAuthToken argument of resetLockout (its challenge field)
HardwareAuthTokens == {0, 42}

\* resetLockout clearing only for a token that is not empty
ResetLockout_ChecksToken(t, hat) ==
    /\ CanBegin(t)
    /\ ops' = Append(ops, NewOp("resetLockout", t, NoMsg, hat, << >>))
    /\ IF hat # 0
       THEN ClearLockout(t, ThisOp, TRUE)
       ELSE UNCHANGED << trkLog, cbLog, inCallback >>
    /\ tm' = [k \in Timers |->
                IF Pending(k) THEN [tm[k] EXCEPT !.resetCalled = TRUE] ELSE tm[k]]
    /\ pc' = [pc EXCEPT ![t] = "reset_abort"]
    /\ frame' = [frame EXCEPT ![t] = [EmptyFrame EXCEPT !.op = ThisOp]]
    /\ UNCHANGED << sessionVars, mutexOwner, crashed, drvLog >>

\* resetLockout, line 133: clearLockout(true); the token is not looked at
ResetLockout(t, hat) ==
    /\ CanBegin(t)
    /\ ops' = Append(ops, NewOp("resetLockout", t, NoMsg, hat, << >>))
    /\ ClearLockout(t, ThisOp, TRUE)
    /\ tm' = [k \in Timers |->
                IF Pending(k) THEN [tm[k] EXCEPT !.resetCalled = TRUE] ELSE tm[k]]
    /\ pc' = [pc EXCEPT ![t] = "reset_abort"]
    /\ frame' = [frame EXCEPT ![t] = [EmptyFrame EXCEPT !.op = ThisOp]]
    /\ UNCHANGED << sessionVars, mutexOwner, crashed, drvLog >>

\* resetLockout, lines 134-136: clearLockout has returned; set the abort
\* flag and return ok
ResetLockoutAbort(t) ==
    /\ Running(t, "reset_abort")
    /\ CallbackReturns(t)
    /\ mIsLockoutTimerAborted' = TRUE
    /\ ops' = Returns(frame[t].op, "ok")
    /\ pc' = [pc EXCEPT ![t] = "idle"]
    /\ frame' = [frame EXCEPT ![t] = EmptyFrame]
    /\ UNCHANGED << mClosed, mIsLockoutTimerStarted, mDeathRecipient, mutexOwner,
                    crashed, tm, cbLog, drvLog, trkLog >>

Unborn == {k \in Timers : pc[k] = "unborn"}
Spawning == {t \in Clients : pc[t] = "start_spawn"}

\* startLockoutTimer, line 203: clear the abort flag
StartLockoutTimer(t) ==
    /\ CanBegin(t)
    /\ Cardinality(Unborn) > Cardinality(Spawning)
    /\ ops' = Append(ops, NewOp("startLockoutTimer", t, NoMsg, 0, << >>))
    /\ mIsLockoutTimerAborted' = FALSE
    /\ tm' = [k \in Timers |->
                IF Pending(k) THEN [tm[k] EXCEPT !.restarted = TRUE] ELSE tm[k]]
    /\ pc' = [pc EXCEPT ![t] = "start_spawn"]
    /\ frame' = [frame EXCEPT ![t] = [EmptyFrame EXCEPT !.op = ThisOp]]
    /\ UNCHANGED << mClosed, mIsLockoutTimerStarted, mDeathRecipient, mutexOwner,
                    crashed, cbLog, drvLog, trkLog, inCallback >>

\* startLockoutTimer, lines 204-209: the detached thread starts to sleep
StartLockoutTimerSpawn(t) ==
    /\ Running(t, "start_spawn")
    /\ LET k == CHOOSE x \in Unborn : \A y \in Unborn : x <= y IN
        /\ pc' = [pc EXCEPT ![t] = "start_flag", ![k] = "sleeping"]
        /\ tm' = [tm EXCEPT ![k] = [NoTimer EXCEPT !.startOp = frame[t].op]]
    /\ UNCHANGED << sessionVars, mutexOwner, crashed, frame, ops, cbLog, drvLog,
                    trkLog, inCallback >>

\* startLockoutTimer, line 211: mIsLockoutTimerStarted = true, return
StartLockoutTimerStarted(t) ==
    /\ Running(t, "start_flag")
    /\ mIsLockoutTimerStarted' = TRUE
    /\ ops' = Returns(frame[t].op, "void")
    /\ pc' = [pc EXCEPT ![t] = "idle"]
    /\ frame' = [frame EXCEPT ![t] = EmptyFrame]
    /\ UNCHANGED << mClosed, mIsLockoutTimerAborted, mDeathRecipient, mutexOwner,
                    crashed, tm, cbLog, drvLog, trkLog, inCallback >>

\* the sleep is over; lockoutTimerExpired, lines 215-216: test the abort
\* flag and, when it is clear, clearLockout(false)
LockoutTimerExpired(k) ==
    /\ Running(k, "sleeping")
    /\ ops' = Append(ops, NewOp("lockoutTimerExpired", k, NoMsg, tm[k].startOp, << >>))
    /\ frame' = [frame EXCEPT ![k] = [EmptyFrame EXCEPT !.op = ThisOp]]
    /\ pc' = [pc EXCEPT ![k] = "expired_started"]
    /\ IF ~mIsLockoutTimerAborted
       THEN ClearLockout(k, ThisOp, FALSE)
       ELSE UNCHANGED << trkLog, cbLog, inCallback >>
    /\ UNCHANGED << sessionVars, mutexOwner, crashed, tm, drvLog >>

\* lockoutTimerExpired, line 218: mIsLockoutTimerStarted = false
LockoutTimerClearStarted(k) ==
    /\ Running(k, "expired_started")
    /\ CallbackReturns(k)
    /\ mIsLockoutTimerStarted' = FALSE
    /\ pc' = [pc EXCEPT ![k] = "expired_aborted"]
    /\ UNCHANGED << mClosed, mIsLockoutTimerAborted, mDeathRecipient, mutexOwner,
                    crashed, frame, tm, ops, cbLog, drvLog, trkLog >>

\* lockoutTimerExpired, line 219: mIsLockoutTimerAborted = false; the thread ends
LockoutTimerClearAborted(k) ==
    /\ Running(k, "expired_aborted")
    /\ mIsLockoutTimerAborted' = FALSE
    /\ ops' = Returns(frame[k].op, "void")
    /\ pc' = [pc EXCEPT ![k] = "finished"]
    /\ frame' = [frame EXCEPT ![k] = EmptyFrame]
    /\ UNCHANGED << mClosed, mIsLockoutTimerStarted, mDeathRecipient, mutexOwner,
                    crashed, tm, cbLog, drvLog, trkLog, inCallback >>

\* ------------------------------------------- close and death, lines 22-28, 139-144
\* close, lines 140-141: mClosed = true, then onSessionClosed, no lock taken
CloseBody(t, o) ==
    /\ mClosed' = TRUE
    /\ InvokeCallback(t, o, "onSessionClosed", "", 0, mutexOwner = t)
    /\ pc' = [pc EXCEPT ![t] = "close_delete"]
    /\ UNCHANGED << mIsLockoutTimerStarted, mIsLockoutTimerAborted, mDeathRecipient,
                    mutexOwner, crashed, tm, drvLog, trkLog >>

Close(t) ==
    /\ CanBegin(t)
    /\ ops' = Append(ops, [NewOp("close", t, NoMsg, 0, << >>) EXCEPT !.closed = TRUE])
    /\ frame' = [frame EXCEPT ![t] = [EmptyFrame EXCEPT !.op = ThisOp]]
    /\ CloseBody(t, ThisOp)

\* close, lines 142-143: AIBinder_DeathRecipient_delete, return ok.  Deleting
\* a recipient that an earlier close already deleted is a use after free:
\* the call may go unnoticed or abort the process.
CloseDelete(t) ==
    /\ Running(t, "close_delete")
    /\ CallbackReturns(t)
    /\ mDeathRecipient' = "deleted"
    /\ \/ /\ crashed' = FALSE
          /\ ops' = Returns(frame[t].op, "ok")
       \/ /\ mDeathRecipient = "deleted"
          /\ crashed' = TRUE
          /\ ops' = Returns(frame[t].op, "trap")
    /\ pc' = [pc EXCEPT ![t] = "idle"]
    /\ frame' = [frame EXCEPT ![t] = EmptyFrame]
    /\ UNCHANGED << mClosed, mIsLockoutTimerStarted, mIsLockoutTimerAborted,
                    mutexOwner, tm, cbLog, drvLog, trkLog >>

\* onClientDeath calling close() without the test of isClosed()
OnClientDeath_NoClosedTest(t) ==
    /\ CanBegin(t)
    /\ ops' = Append(ops, NewOp("onClientDeath", t, NoMsg, 0, << >>))
    /\ pc' = [pc EXCEPT ![t] = "death_close"]
    /\ frame' = [frame EXCEPT ![t] = [EmptyFrame EXCEPT !.op = ThisOp]]
    /\ UNCHANGED << sessionVars, mutexOwner, crashed, tm, cbLog, drvLog, trkLog,
                    inCallback >>

\* onClientDeath, line 25: the test of isClosed()
OnClientDeath(t) ==
    /\ CanBegin(t)
    /\ IF mClosed
       THEN /\ ops' = Append(ops, [NewOp("onClientDeath", t, NoMsg, 0, << >>)
                                      EXCEPT !.ret = "void"])
            /\ UNCHANGED << pc, frame >>
       ELSE /\ ops' = Append(ops, NewOp("onClientDeath", t, NoMsg, 0, << >>))
            /\ pc' = [pc EXCEPT ![t] = "death_close"]
            /\ frame' = [frame EXCEPT ![t] = [EmptyFrame EXCEPT !.op = ThisOp]]
    /\ UNCHANGED << sessionVars, mutexOwner, crashed, tm, cbLog, drvLog, trkLog,
                    inCallback >>

\* onClientDeath, line 26: session->close()
OnClientDeathClose(t) ==
    /\ Running(t, "death_close")
    /\ ops' = [ops EXCEPT ![frame[t].op].closed = TRUE]
    /\ frame' = frame
    /\ CloseBody(t, frame[t].op)

\* ---------------------------------------------- translators, lines 226-280
\* VendorErrorFilter testing error > FINGERPRINT_ERROR_VENDOR_BASE
VendorErrorFilter_StrictBase(error) ==
    CASE error = FINGERPRINT_ERROR_HW_UNAVAILABLE ->
            [kind |-> "HW_UNAVAILABLE", vendorCode |-> 0]
      [] error = FINGERPRINT_ERROR_UNABLE_TO_PROCESS ->
            [kind |-> "UNABLE_TO_PROCESS", vendorCode |-> 0]
      [] error = FINGERPRINT_ERROR_TIMEOUT ->
            [kind |-> "TIMEOUT", vendorCode |-> 0]
      [] error = FINGERPRINT_ERROR_NO_SPACE ->
            [kind |-> "NO_SPACE", vendorCode |-> 0]
      [] error = FINGERPRINT_ERROR_CANCELED ->
            [kind |-> "CANCELED", vendorCode |-> 0]
      [] error = FINGERPRINT_ERROR_UNABLE_TO_REMOVE ->
            [kind |-> "UNABLE_TO_REMOVE", vendorCode |-> 0]
      [] OTHER ->
            IF error > FINGERPRINT_ERROR_VENDOR_BASE
            THEN [kind |-> "VENDOR",
                  vendorCode |-> error - FINGERPRINT_ERROR_VENDOR_BASE]
            ELSE [kind |-> "UNABLE_TO_PROCESS", vendorCode |-> 0]

\* VendorErrorFilter: the Error kind and *vendorCode for a legacy error code
VendorErrorFilter(error) ==
    CASE error = FINGERPRINT_ERROR_HW_UNAVAILABLE ->
            [kind |-> "HW_UNAVAILABLE", vendorCode |-> 0]
      [] error = FINGERPRINT_ERROR_UNABLE_TO_PROCESS ->
            [kind |-> "UNABLE_TO_PROCESS", vendorCode |-> 0]
      [] error = FINGERPRINT_ERROR_TIMEOUT ->
            [kind |-> "TIMEOUT", vendorCode |-> 0]
      [] error = FINGERPRINT_ERROR_NO_SPACE ->
            [kind |-> "NO_SPACE", vendorCode |-> 0]
      [] error = FINGERPRINT_ERROR_CANCELED ->
            [kind |-> "CANCELED", vendorCode |-> 0]
      [] error = FINGERPRINT_ERROR_UNABLE_TO_REMOVE ->
            [kind |-> "UNABLE_TO_REMOVE", vendorCode |-> 0]
      [] OTHER ->
            IF error >= FINGERPRINT_ERROR_VENDOR_BASE
            THEN [kind |-> "VENDOR",
                  vendorCode |-> error - FINGERPRINT_ERROR_VENDOR_BASE]
            ELSE [kind |-> "UNABLE_TO_PROCESS", vendorCode |-> 0]

\* VendorAcquiredFilter handing on the legacy code as the vendor code
VendorAcquiredFilter_RawVendorCode(info) ==
    CASE info = FINGERPRINT_ACQUIRED_GOOD ->
            [kind |-> "GOOD", vendorCode |-> 0]
      [] info = FINGERPRINT_ACQUIRED_PARTIAL ->
            [kind |-> "PARTIAL", vendorCode |-> 0]
      [] info = FINGERPRINT_ACQUIRED_INSUFFICIENT ->
            [kind |-> "INSUFFICIENT", vendorCode |-> 0]
      [] info = FINGERPRINT_ACQUIRED_IMAGER_DIRTY ->
            [kind |-> "SENSOR_DIRTY", vendorCode |-> 0]
      [] info = FINGERPRINT_ACQUIRED_TOO_SLOW ->
            [kind |-> "TOO_SLOW", vendorCode |-> 0]
      [] info = FINGERPRINT_ACQUIRED_TOO_FAST ->
            [kind |-> "TOO_FAST", vendorCode |-> 0]
      [] OTHER ->
            IF info >= FINGERPRINT_ACQUIRED_VENDOR_BASE
            THEN [kind |-> "VENDOR",
                  vendorCode |-> info]
            ELSE [kind |-> "INSUFFICIENT", vendorCode |-> 0]

\* VendorAcquiredFilter: the AcquiredInfo and *vendorCode for a legacy code
VendorAcquiredFilter(info) ==
    CASE info = FINGERPRINT_ACQUIRED_GOOD ->
            [kind |-> "GOOD", vendorCode |-> 0]
      [] info = FINGERPRINT_ACQUIRED_PARTIAL ->
            [kind |-> "PARTIAL", vendorCode |-> 0]
      [] info = FINGERPRINT_ACQUIRED_INSUFFICIENT ->
            [kind |-> "INSUFFICIENT", vendorCode |-> 0]
      [] info = FINGERPRINT_ACQUIRED_IMAGER_DIRTY ->
            [kind |-> "SENSOR_DIRTY", vendorCode |-> 0]
      [] info = FINGERPRINT_ACQUIRED_TOO_SLOW ->
            [kind |-> "TOO_SLOW", vendorCode |-> 0]
      [] info = FINGERPRINT_ACQUIRED_TOO_FAST ->
            [kind |-> "TOO_FAST", vendorCode |-> 0]
      [] OTHER ->
            IF info >= FINGERPRINT_ACQUIRED_VENDOR_BASE
            THEN [kind |-> "VENDOR",
                  vendorCode |-> info - FINGERPRINT_ACQUIRED_VENDOR_BASE]
            ELSE [kind |-> "INSUFFICIENT", vendorCode |-> 0]

\* legacy codes handed to the translators: the table, its neighbours, the
\* vendor base and its neighbours, and the ends of int32_t
ErrorCodes ==
    (-1 .. 9) \cup {-2147483647, 2147483647}
    \cup ((FINGERPRINT_ERROR_VENDOR_BASE - 1) .. (FINGERPRINT_ERROR_VENDOR_BASE + 2))
AcquiredCodes ==
    (-1 .. 8) \cup {-2147483647, 2147483647}
    \cup ((FINGERPRINT_ACQUIRED_VENDOR_BASE - 1) .. (FINGERPRINT_ACQUIRED_VENDOR_BASE + 2))

\* one call of a translator, as notify makes it; the result is kept in `out`
ApplyFilter(name, code, result) ==
    /\ CanBegin(Driver)
    /\ ops' = Append(ops, [NewOp(name, Driver, NoMsg, code, << >>)
                              EXCEPT !.ret = "returned", !.out = result])
    /\ UNCHANGED << sessionVars, mutexOwner, crashed, pc, frame, tm, cbLog,
                    drvLog, trkLog, inCallback >>

ApplyVendorErrorFilter(error) ==
    ApplyFilter("VendorErrorFilter", error, VendorErrorFilter(error))

ApplyVendorAcquiredFilter(info) ==
    ApplyFilter("VendorAcquiredFilter", info, VendorAcquiredFilter(info))

\* ------------------------------------------------------ notify, lines 282-363
Callback(name, kind, code) == [name |-> name, kind |-> kind, code |-> code]
NoCallback == Callback("none", "", 0)

\* the translation of a FINGERPRINT_ERROR message, lines 291-307
ErrorCallback_NoIntercept(error) ==
    Callback("onError", VendorErrorFilter(error).kind,
             VendorErrorFilter(error).vendorCode)

ErrorCallback(error) ==
    IF error = FINGERPRINT_ERROR_LOCKOUT
    THEN Callback("onLockoutPermanent", "", 0)
    ELSE Callback("onError", VendorErrorFilter(error).kind,
                  VendorErrorFilter(error).vendorCode)

\* the translation of a FINGERPRINT_AUTHENTICATED message, lines 334-353
AuthenticatedCallback_NoMatchIsError(fid) ==
    IF fid # 0
    THEN Callback("onAuthenticationSucceeded", "", fid)
    ELSE Callback("onError", "UNABLE_TO_PROCESS", 0)

AuthenticatedCallback(fid) ==
    IF fid # 0
    THEN Callback("onAuthenticationSucceeded", "", fid)
    ELSE Callback("onAuthenticationFailed", "", 0)

\* the translation of a FINGERPRINT_TEMPLATE_ENROLLING message, lines 318-325
EnrollingCallback_DropsLast(remaining) ==
    IF remaining = 0 THEN NoCallback
    ELSE Callback("onEnrollmentProgress", "", remaining)

EnrollingCallback(remaining) ==
    Callback("onEnrollmentProgress", "", remaining)

\* the switch on msg->type: the one client callback a message is turned into
NotifyCallback(msg) ==
    CASE msg.type = "FINGERPRINT_ERROR" ->
            ErrorCallback(msg.val)
      [] msg.type = "FINGERPRINT_ACQUIRED" ->
            Callback("onAcquired", VendorAcquiredFilter(msg.val).kind,
                     VendorAcquiredFilter(msg.val).vendorCode)
      [] msg.type = "FINGERPRINT_TEMPLATE_ENROLLING" ->
            EnrollingCallback(msg.val)
      [] msg.type = "FINGERPRINT_TEMPLATE_REMOVED" ->
            Callback("onEnrollmentsRemoved", "", msg.val)
      [] msg.type = "FINGERPRINT_AUTHENTICATED" ->
            AuthenticatedCallback(msg.val)
      [] msg.type = "FINGERPRINT_TEMPLATE_ENUMERATING" ->
            Callback("onEnrollmentsEnumerated", "", msg.val)
      [] OTHER -> NoCallback

\* notify, lines 283-362: take mSessionCallbackMutex (sInstance and
\* mSessionCallback are set), dispatch on the message type
Notify(msg) ==
    /\ CanBegin(Driver)
    /\ mutexOwner = NoThread
    /\ LET cb == NotifyCallback(msg) IN
       IF cb.name = "none"
       THEN /\ ops' = Append(ops, [NewOp("notify", Driver, msg, 0, << >>)
                                      EXCEPT !.ret = "void"])
            /\ UNCHANGED << mutexOwner, pc, frame, cbLog, inCallback >>
       ELSE /\ ops' = Append(ops, NewOp("notify", Driver, msg, 0, << >>))
            /\ mutexOwner' = Driver
            /\ InvokeCallback(Driver, ThisOp, cb.name, cb.kind, cb.code, TRUE)
            /\ pc' = [pc EXCEPT ![Driver] = "notify_return"]
            /\ frame' = [frame EXCEPT ![Driver] = [EmptyFrame EXCEPT !.op = ThisOp]]
    /\ UNCHANGED << sessionVars, crashed, tm, drvLog, trkLog >>

\* notify, line 363: the callback has returned, the lock_guard is released
NotifyReturn ==
    /\ Running(Driver, "notify_return")
    /\ CallbackReturns(Driver)
    /\ mutexOwner' = NoThread
    /\ ops' = Returns(frame[Driver].op, "void")
    /\ pc' = [pc EXCEPT ![Driver] = "idle"]
    /\ frame' = [frame EXCEPT ![Driver] = EmptyFrame]
    /\ UNCHANGED << sessionVars, crashed, tm, cbLog, drvLog, trkLog >>

\* ------------------------------------------------------------ specification
Next ==
    \/ \E t \in Clients, c \in Challenges : GenerateChallenge(t, c)
    \/ \E t \in Clients, c \in Challenges : RevokeChallenge(t, c)
    \/ \E t \in Clients : ReturnOk(t)
    \/ \E t \in Clients, st \in DriverStatus : Enroll(t, st)
    \/ \E t \in Clients, st \in DriverStatus : Authenticate(t, st)
    \/ \E t \in Clients, st \in DriverStatus : EnumerateEnrollments(t, st)
    \/ \E t \in Clients : ReportError(t)
    \/ \E t \in Clients : UnlockReturnOk(t)
    \/ \E t \in Clients : DetectInteraction(t)
    \/ \E t \in Clients : DetectInteractionWithContext(t)
    \/ \E t \in Clients, ids \in EnrollIdLists :
          \E sts \in StatusLists(ids) : RemoveEnrollments(t, ids, sts)
    \/ \E t \in Clients, id \in AuthIds : GetAuthenticatorId(t, id)
    \/ \E t \in Clients, id \in AuthIds : InvalidateAuthenticatorId(t, id)
    \/ \E t \in Clients : InvalidateFallsOffEnd(t)
    \/ \E t \in Clients, hat \in HardwareAuthTokens : ResetLockout(t, hat)
    \/ \E t \in Clients : ResetLockoutAbort(t)
    \/ \E t \in Clients : StartLockoutTimer(t)
    \/ \E t \in Clients : StartLockoutTimerSpawn(t)
    \/ \E t \in Clients : StartLockoutTimerStarted(t)
    \/ \E k \in Timers : LockoutTimerExpired(k)
    \/ \E k \in Timers : LockoutTimerClearStarted(k)
    \/ \E k \in Timers : LockoutTimerClearAborted(k)
    \/ \E t \in Clients : Close(t)
    \/ \E t \in Clients : CloseDelete(t)
    \/ \E t \in Clients : OnClientDeath(t)
    \/ \E t \in Clients : OnClientDeathClose(t)
    \/ \E msg \in Messages : Notify(msg)
    \/ NotifyReturn

Spec == Init /\ [][Next]_vars

\* The notification path with what it shares the callback mutex and the
\* session with: a request that reports under the same mutex, and close.
ProgressMessages == {m \in Messages : m.type = "FINGERPRINT_TEMPLATE_ENROLLING"}

NextDispatch ==
    \/ \E msg \in Messages : Notify(msg)
    \/ NotifyReturn
    \/ \E t \in Clients, st \in DriverStatus : Authenticate(t, st)
    \/ \E t \in Clients : ReportError(t)
    \/ \E t \in Clients : UnlockReturnOk(t)
    \/ \E t \in Clients : Close(t)
    \/ \E t \in Clients : CloseDelete(t)

SpecDispatch == Init /\ [][NextDispatch]_vars

\* The requests that make legacy calls with an immediate status, next to
\* the enrollment progress notifications that contend for the mutex.
NextRequests ==
    \/ \E t \in Clients, st \in DriverStatus : Enroll(t, st)
    \/ \E t \in Clients, st \in DriverStatus : Authenticate(t, st)
    \/ \E t \in Clients, st \in DriverStatus : EnumerateEnrollments(t, st)
    \/ \E t \in Clients : ReportError(t)
    \/ \E t \in Clients : UnlockReturnOk(t)
    \/ \E t \in Clients, ids \in EnrollIdLists :
          \E sts \in StatusLists(ids) : RemoveEnrollments(t, ids, sts)
    \/ \E msg \in ProgressMessages : Notify(msg)
    \/ NotifyReturn

SpecRequests == Init /\ [][NextRequests]_vars

\* detectInteraction next to a request that does ask the driver and to the
\* notifications, which make their callbacks under the mutex.
NextDetect ==
    \/ \E t \in Clients : DetectInteraction(t)
    \/ \E t \in Clients : DetectInteractionWithContext(t)
    \/ \E t \in Clients : ReturnOk(t)
    \/ \E t \in Clients, st \in DriverStatus : Authenticate(t, st)
    \/ \E t \in Clients : ReportError(t)
    \/ \E t \in Clients : UnlockReturnOk(t)
    \/ \E msg \in ProgressMessages : Notify(msg)
    \/ NotifyReturn

SpecDetect == Init /\ [][NextDetect]_vars

\* The two translators applied to legacy codes drawn from ErrorCodes and
\* AcquiredCodes.
NextTranslate ==
    \/ \E error \in ErrorCodes : ApplyVendorErrorFilter(error)
    \/ \E info \in AcquiredCodes : ApplyVendorAcquiredFilter(info)

SpecTranslate == Init /\ [][NextTranslate]_vars

\* The lockout path: resetLockout, startLockoutTimer and the timer threads.
NextLockout ==
    \/ \E t \in Clients, hat \in HardwareAuthTokens : ResetLockout(t, hat)
    \/ \E t \in Clients : ResetLockoutAbort(t)
    \/ \E t \in Clients : StartLockoutTimer(t)
    \/ \E t \in Clients : StartLockoutTimerSpawn(t)
    \/ \E t \in Clients : StartLockoutTimerStarted(t)
    \/ \E k \in Timers : LockoutTimerExpired(k)
    \/ \E k \in Timers : LockoutTimerClearStarted(k)
    \/ \E k \in Timers : LockoutTimerClearAborted(k)

SpecLockout == Init /\ [][NextLockout]_vars

\* A thread that has been started keeps running: the sleep of a timer
\* thread ends and lockoutTimerExpired runs to its end, and a binder thread
\* inside resetLockout or startLockoutTimer reaches its return.
LockoutFairness ==
    /\ \A k \in Timers :
          /\ WF_vars(LockoutTimerExpired(k))
          /\ WF_vars(LockoutTimerClearStarted(k))
          /\ WF_vars(LockoutTimerClearAborted(k))
    /\ \A t \in Clients :
          /\ WF_vars(ResetLockoutAbort(t))
          /\ WF_vars(StartLockoutTimerSpawn(t))
          /\ WF_vars(StartLockoutTimerStarted(t))

SpecLockoutFair == SpecLockout /\ LockoutFairness

\* Death notifications and explicit closes of the session, with the driver
\* notifying and a client asking for challenges meanwhile.
NextClose ==
    \/ \E t \in Clients : OnClientDeath(t)
    \/ \E t \in Clients : OnClientDeathClose(t)
    \/ \E t \in Clients : Close(t)
    \/ \E t \in Clients : CloseDelete(t)
    \/ \E t \in Clients, c \in Challenges : GenerateChallenge(t, c)
    \/ \E t \in Clients : ReturnOk(t)
    \/ \E msg \in ProgressMessages : Notify(msg)
    \/ NotifyReturn

SpecClose == Init /\ [][NextClose]_vars

TypeOK ==
    /\ mClosed \in BOOLEAN
    /\ mutexOwner \in Threads \cup {NoThread}
    /\ inCallback \subseteq Threads

\* ------------------------------------------------- reading the histories
CallbacksOf(o) == SelectSeq(cbLog, LAMBDA e : e.op = o)
DriverCallsOf(o) == SelectSeq(drvLog, LAMBDA e : e.op = o)
Names(s) == [i \in 1 .. Len(s) |-> s[i].name]
OpIds(kind) == {o \in 1 .. Len(ops) : ops[o].kind = kind}
Done(o) == ops[o].ret # "pending"

IsSessionClosed(e) == e.name = "onSessionClosed"
RanClose(o) == o.closed
TimerCleared(k) == \E i \in 1 .. Len(trkLog) : trkLog[i].by = k

\* ------------------------------------------------------------------- claims

\* C1: once some close() has returned, no notification handed to notify
\* leads to a client callback invocation.
C1_NoCallbackFromNotifyAfterClose ==
    \A i \in 1 .. Len(cbLog) :
        ops[cbLog[i].op].kind = "notify" => ~cbLog[i].afterClose

\* C2: however many times the body of close() runs (explicit calls, the
\* death notification, or both), onSessionClosed is delivered exactly once.
C2_CloseIdempotent ==
    CountIf(ops, RanClose) >= 2 => CountIf(cbLog, IsSessionClosed) = 1

\* C3: a timer whose delayed action was still pending when resetLockout was
\* called performs no clear when it fires.
C3_ResetPreventsTimerClear ==
    \A k \in Timers : tm[k].resetCalled => ~TimerCleared(k)

\* C4: a timer that was still pending when startLockoutTimer was called
\* again does nothing when it fires: no LockoutTracker.reset, no client
\* callback, no change of the two timer flags.
C4_StaleTimerIsNoOp ==
    [][\A k \in Timers :
          (tm[k].restarted /\ pc'[k] # pc[k]) =>
              UNCHANGED << mIsLockoutTimerStarted, mIsLockoutTimerAborted,
                           trkLog, cbLog >>]_vars

\* C5: every client callback invocation is made with mSessionCallbackMutex
\* held, so at most one invocation is in progress at any time.
C5_CallbacksUnderMutex ==
    /\ Cardinality(inCallback) <= 1
    /\ \A i \in 1 .. Len(cbLog) : cbLog[i].locked

\* the notifications that arrived while the session was open, in order of
\* arrival, and the callbacks made for them, in order of invocation
OpenNotifies == SelectSeq([o \in 1 .. Len(ops) |-> o],
                          LAMBDA o : ops[o].kind = "notify" /\ ops[o].open)
OpenNotifyCallbacks ==
    SelectSeq(cbLog, LAMBDA e : ops[e.op].kind = "notify" /\ ops[e.op].open)

IsLockoutMsg(o) ==
    /\ ops[o].msg.type = "FINGERPRINT_ERROR"
    /\ ops[o].msg.val = FINGERPRINT_ERROR_LOCKOUT

\* C6: an Error notification carrying FINGERPRINT_ERROR_LOCKOUT makes notify
\* invoke onLockoutPermanent exactly once and onError never.
C6_LockoutSentinelIsPermanentLockout ==
    \A o \in OpIds("notify") :
        IsLockoutMsg(o) => Names(CallbacksOf(o)) = << "onLockoutPermanent" >>

C6_Witness ==
    \E o \in OpIds("notify") : IsLockoutMsg(o) /\ Done(o)

\* C7: an Authenticated notification with finger id 0 makes notify invoke
\* onAuthenticationFailed exactly once and nothing else; with a non-zero id
\* it invokes onAuthenticationSucceeded with that id and nothing else.
C7_AuthenticatedZeroIsFailure ==
    \A o \in OpIds("notify") :
        ops[o].msg.type = "FINGERPRINT_AUTHENTICATED" =>
            /\ Len(CallbacksOf(o)) = 1
            /\ IF ops[o].msg.val = 0
               THEN CallbacksOf(o)[1].name = "onAuthenticationFailed"
               ELSE /\ CallbacksOf(o)[1].name = "onAuthenticationSucceeded"
                    /\ CallbacksOf(o)[1].code = ops[o].msg.val

C7_Witness ==
    /\ \E o \in OpIds("notify") :
          ops[o].msg = [type |-> "FINGERPRINT_AUTHENTICATED", val |-> 0] /\ Done(o)
    /\ \E o \in OpIds("notify") :
          ops[o].msg = [type |-> "FINGERPRINT_AUTHENTICATED", val |-> 3] /\ Done(o)

\* C8: on an open session every notification leads to exactly one client
\* callback, and the callbacks come in the order the notifications arrived;
\* an EnrollProgress notification is delivered as onEnrollmentProgress with
\* its remaining count, whatever an earlier enroll returned.
C8_OneCallbackPerNotificationInOrder ==
    /\ [i \in 1 .. Len(OpenNotifyCallbacks) |-> OpenNotifyCallbacks[i].op]
           = OpenNotifies
    /\ \A o \in OpIds("notify") :
          (ops[o].open /\ ops[o].msg.type = "FINGERPRINT_TEMPLATE_ENROLLING") =>
              /\ CallbacksOf(o)[1].name = "onEnrollmentProgress"
              /\ CallbacksOf(o)[1].code = ops[o].msg.val

C8_Witness ==
    /\ Len(OpenNotifies) >= 2
    /\ ops[OpenNotifies[1]].msg # ops[OpenNotifies[2]].msg
    /\ ops[OpenNotifies[2]].msg = [type |-> "FINGERPRINT_TEMPLATE_ENROLLING", val |-> 0]
    /\ Done(OpenNotifies[2])

IsLegacyRequest(o) ==
    ops[o].kind \in {"enroll", "authenticate", "enumerateEnrollments"}
LegacyFn(o) ==
    IF ops[o].kind = "enumerateEnrollments" THEN "enumerate" ELSE ops[o].kind

RemovedIds(o) == [i \in 1 .. Len(DriverCallsOf(o)) |-> DriverCallsOf(o)[i].arg]

\* C10: removeEnrollments calls remove once per id, in list order, going on
\* past ids whose call failed; it invokes no client callback and returns ok.
C10_RemoveEachIdOnceNoCallback ==
    \A o \in OpIds("removeEnrollments") :
        /\ \A i \in 1 .. Len(DriverCallsOf(o)) : DriverCallsOf(o)[i].fn = "remove"
        /\ Len(RemovedIds(o)) <= Len(ops[o].ids)
        /\ RemovedIds(o) = SubSeq(ops[o].ids, 1, Len(RemovedIds(o)))
        /\ CallbacksOf(o) = << >>
        /\ ops[o].ret \in {"pending", "ok"}
        /\ Done(o) => RemovedIds(o) = ops[o].ids

C10_Witness ==
    \E o \in OpIds("removeEnrollments") :
        /\ ops[o].ret = "ok"
        /\ Len(ops[o].ids) = 2
        /\ DriverCallsOf(o)[1].ret # 0

IsDetect(o) ==
    ops[o].kind \in {"detectInteraction", "detectInteractionWithContext"}

\* C11: detectInteraction and detectInteractionWithContext invoke exactly one
\* onError(UNABLE_TO_PROCESS, 0), make no legacy driver call, and return ok
\* with a cancellation token.
C11_DetectInteractionUnsupported ==
    \A o \in 1 .. Len(ops) :
        IsDetect(o) =>
            /\ Len(CallbacksOf(o)) = 1
            /\ CallbacksOf(o)[1].name = "onError"
            /\ CallbacksOf(o)[1].kind = "UNABLE_TO_PROCESS"
            /\ CallbacksOf(o)[1].code = 0
            /\ DriverCallsOf(o) = << >>
            /\ ops[o].ret \in {"pending", "ok"}
            /\ Done(o) => ops[o].token

C11_Witness ==
    /\ \E o \in OpIds("detectInteraction") : ops[o].ret = "ok"
    /\ \E o \in OpIds("detectInteractionWithContext") : ops[o].ret = "ok"

ErrorTable ==
    {FINGERPRINT_ERROR_HW_UNAVAILABLE, FINGERPRINT_ERROR_UNABLE_TO_PROCESS,
     FINGERPRINT_ERROR_TIMEOUT, FINGERPRINT_ERROR_NO_SPACE,
     FINGERPRINT_ERROR_CANCELED, FINGERPRINT_ERROR_UNABLE_TO_REMOVE}

\* C12: VendorErrorFilter gives the same-named kind with vendorCode 0 for the
\* six table codes, VENDOR with vendorCode = code - vendor base for every
\* other code at or above the vendor base, and UNABLE_TO_PROCESS with
\* vendorCode 0 for every remaining code.
C12_ErrorTranslation ==
    \A o \in OpIds("VendorErrorFilter") :
        LET c == ops[o].arg
            r == ops[o].out
        IN  /\ c = FINGERPRINT_ERROR_HW_UNAVAILABLE => r = Translated("HW_UNAVAILABLE", 0)
            /\ c = FINGERPRINT_ERROR_UNABLE_TO_PROCESS =>
                   r = Translated("UNABLE_TO_PROCESS", 0)
            /\ c = FINGERPRINT_ERROR_TIMEOUT => r = Translated("TIMEOUT", 0)
            /\ c = FINGERPRINT_ERROR_NO_SPACE => r = Translated("NO_SPACE", 0)
            /\ c = FINGERPRINT_ERROR_CANCELED => r = Translated("CANCELED", 0)
            /\ c = FINGERPRINT_ERROR_UNABLE_TO_REMOVE =>
                   r = Translated("UNABLE_TO_REMOVE", 0)
            /\ (c \notin ErrorTable /\ c >= FINGERPRINT_ERROR_VENDOR_BASE) =>
                   r = Translated("VENDOR", c - FINGERPRINT_ERROR_VENDOR_BASE)
            /\ (c \notin ErrorTable /\ c < FINGERPRINT_ERROR_VENDOR_BASE) =>
                   r = Translated("UNABLE_TO_PROCESS", 0)

C12_Witness ==
    /\ \E o \in OpIds("VendorErrorFilter") : ops[o].arg = FINGERPRINT_ERROR_VENDOR_BASE
    /\ \E o \in OpIds("VendorErrorFilter") : ops[o].arg = FINGERPRINT_ERROR_CANCELED

AcquiredTable ==
    {FINGERPRINT_ACQUIRED_GOOD, FINGERPRINT_ACQUIRED_PARTIAL,
     FINGERPRINT_ACQUIRED_INSUFFICIENT, FINGERPRINT_ACQUIRED_IMAGER_DIRTY,
     FINGERPRINT_ACQUIRED_TOO_SLOW, FINGERPRINT_ACQUIRED_TOO_FAST}

\* C13: VendorAcquiredFilter gives GOOD, PARTIAL, INSUFFICIENT, SENSOR_DIRTY
\* (for IMAGER_DIRTY), TOO_SLOW and TOO_FAST with vendorCode 0 for the table
\* codes, VENDOR with vendorCode = info - vendor base for every other code
\* at or above the vendor base, and INSUFFICIENT with vendorCode 0 for
\* every remaining code.
C13_AcquiredTranslation ==
    \A o \in OpIds("VendorAcquiredFilter") :
        LET c == ops[o].arg
            r == ops[o].out
        IN  /\ c = FINGERPRINT_ACQUIRED_GOOD => r = Translated("GOOD", 0)
            /\ c = FINGERPRINT_ACQUIRED_PARTIAL => r = Translated("PARTIAL", 0)
            /\ c = FINGERPRINT_ACQUIRED_INSUFFICIENT => r = Translated("INSUFFICIENT", 0)
            /\ c = FINGERPRINT_ACQUIRED_IMAGER_DIRTY => r = Translated("SENSOR_DIRTY", 0)
            /\ c = FINGERPRINT_ACQUIRED_TOO_SLOW => r = Translated("TOO_SLOW", 0)
            /\ c = FINGERPRINT_ACQUIRED_TOO_FAST => r = Translated("TOO_FAST", 0)
            /\ (c \notin AcquiredTable /\ c >= FINGERPRINT_ACQUIRED_VENDOR_BASE) =>
                   r = Translated("VENDOR", c - FINGERPRINT_ACQUIRED_VENDOR_BASE)
            /\ (c \notin AcquiredTable /\ c < FINGERPRINT_ACQUIRED_VENDOR_BASE) =>
                   r = Translated("INSUFFICIENT", 0)

C13_Witness ==
    /\ \E o \in OpIds("VendorAcquiredFilter") :
          ops[o].arg = FINGERPRINT_ACQUIRED_VENDOR_BASE + 1
    /\ \E o \in OpIds("VendorAcquiredFilter") : ops[o].arg = 6

ClearsOf(o) == SelectSeq(trkLog, LAMBDA e : e.op = o)

\* C17: every resetLockout, with or without a running timer and whatever
\* its token, performs exactly one LockoutTracker.reset(true) and exactly
\* one onLockoutCleared before it returns, and returns ok with the abort
\* flag set.
C17_ResetLockoutClearsOnce ==
    /\ [](\A o \in OpIds("resetLockout") :
            /\ Len(ClearsOf(o)) = 1
            /\ ClearsOf(o)[1].clearAttemptCounter
            /\ Names(CallbacksOf(o)) = << "onLockoutCleared" >>
            /\ ops[o].ret \in {"pending", "ok"})
    /\ [][\A t \in Clients :
            (pc[t] = "reset_abort" /\ pc'[t] = "idle") => mIsLockoutTimerAborted']_vars

C17_Witness ==
    \E o \in OpIds("resetLockout") :
        /\ ops[o].ret = "ok"
        /\ mIsLockoutTimerAborted
        /\ \E k \in Timers : tm[k].resetCalled /\ pc[k] = "sleeping"

\* the delayed action of timer thread k has fired
Fired(k) == pc[k] \notin {"unborn", "sleeping"}
\* no resetLockout has been called since the startLockoutTimer of timer k
NoResetSince(k) ==
    /\ pc[k] # "unborn"
    /\ \A o \in OpIds("resetLockout") : o < tm[k].startOp
\* a clear made after the startLockoutTimer of timer k by somebody else
\* than timer k, while the delayed action of k had not fired yet
ClearedEarly(k) ==
    \E i \in 1 .. Len(trkLog) :
        /\ trkLog[i].by # k
        /\ trkLog[i].op > tm[k].startOp
        /\ \A o \in OpIds("lockoutTimerExpired") : ops[o].t = k => trkLog[i].op < o
TimerClears(k) == SelectSeq(trkLog, LAMBDA e : e.by = k)

\* C14: a timer that is started and not followed by a resetLockout fires,
\* and its delayed action performs exactly one LockoutTracker.reset(false)
\* followed by one onLockoutCleared; no clear happens between the start of
\* the timer and the firing of its delayed action.
C14_TimerClearsLockoutOnce ==
    /\ \A k \in Timers : (pc[k] = "sleeping") ~> Fired(k)
    /\ [](\A k \in Timers :
            NoResetSince(k) =>
                /\ ~ClearedEarly(k)
                /\ Fired(k) =>
                       /\ Len(TimerClears(k)) = 1
                       /\ ~TimerClears(k)[1].clearAttemptCounter
                       /\ Names(CallbacksOf(TimerClears(k)[1].op))
                              = << "onLockoutCleared" >>)

\* C15: no client callback is invoked by a timer expiry once close has
\* completed.
C15_NoTimerCallbackAfterClose ==
    \A i \in 1 .. Len(cbLog) :
        ops[cbLog[i].op].kind = "lockoutTimerExpired" => ~cbLog[i].afterClose

\* the step is the isClosed() test of a death notification
DeathArrives ==
    /\ Len(ops') = Len(ops) + 1
    /\ ops'[Len(ops')].kind = "onClientDeath"

\* C16: a death notification on a session that is not closed sets mClosed
\* and delivers exactly one onSessionClosed, as close() does; on a session
\* that is already closed it delivers no callback and changes no state.
C16_DeathNotificationCloses ==
    /\ [](\A o \in OpIds("onClientDeath") :
            IF ops[o].open
            THEN /\ Len(CallbacksOf(o)) <= 1
                 /\ ops[o].closed => mClosed
                 /\ Done(o) => /\ ops[o].closed
                                /\ Names(CallbacksOf(o)) = << "onSessionClosed" >>
            ELSE /\ CallbacksOf(o) = << >>
                 /\ ~ops[o].closed
                 /\ ops[o].ret = "void")
    /\ [][DeathArrives /\ mClosed =>
             UNCHANGED << sessionVars, mutexOwner, crashed, pc, frame, tm, cbLog,
                          drvLog, trkLog, inCallback >>]_vars

C16_Witness ==
    \E o, p \in OpIds("onClientDeath") :
        /\ ops[o].open /\ ops[o].ret = "ok" /\ mClosed
        /\ Names(CallbacksOf(o)) = << "onSessionClosed" >>
        /\ ~ops[p].open /\ ops[p].ret = "void"

\* the thread is inside lockoutTimerExpired, lines 215-219
Expiring(k) == pc[k] \in {"expired_started", "expired_aborted"}

\* C18: lockoutTimerExpired reads and writes the session state only while
\* it holds mSessionCallbackMutex.
C18_ExpiryUnderMutex == \A k \in Timers : Expiring(k) => mutexOwner = k

\* C19: the abort flag is true only while a timer is active.
C19_AbortOnlyWhileTimerActive == mIsLockoutTimerAborted => mIsLockoutTimerStarted

\* no thread is in the middle of startLockoutTimer or lockoutTimerExpired
NoTimerCallInProgress ==
    /\ \A t \in Clients : pc[t] \notin {"start_spawn", "start_flag"}
    /\ \A k \in Timers : ~Expiring(k)

\* C20: when no thread is inside startLockoutTimer or lockoutTimerExpired,
\* mIsLockoutTimerStarted is true exactly when a delayed action is pending.
C20_StartedFlagMeansPending ==
    NoTimerCallInProgress =>
        (mIsLockoutTimerStarted <=> \E k \in Timers : pc[k] = "sleeping")

====
